---- MODULE Spec2Model ----
(***************************************************************************)
(* Model of public/audio/loops/generate-loops.py (THE HOLD loop asset      *)
(* generator): the numpy helpers, the four loop generators, save_wav and   *)
(* the driver main().                                                      *)
(*                                                                         *)
(* Samples are exact rationals <<numerator, denominator>> in lowest terms  *)
(* with a positive denominator.  A numpy array is a sequence; the Python   *)
(* index i is the sequence index i + 1.  A call that can raise returns a   *)
(* record [exc, val]: exc is "none" or the exception's name, val the       *)
(* array the call returns (or, for an in-place call, leaves behind).       *)
(***************************************************************************)
EXTENDS Integers, Sequences, FiniteSets, TLC

(* ------------------------------ rationals ------------------------------ *)

Abs(n) == IF n < 0 THEN -n ELSE n

Min(a, b) == IF a <= b THEN a ELSE b

Max(a, b) == IF a >= b THEN a ELSE b

RECURSIVE GCD(_, _)
GCD(a, b) == IF b = 0 THEN a ELSE GCD(b, a % b)

\* n/d in lowest terms, d # 0
Q(n, d) ==
    LET s == IF d < 0 THEN -1 ELSE 1
        g == GCD(Abs(n), Abs(d))
    IN  <<(s * n) \div g, (s * d) \div g>>

QInt(n) == <<n, 1>>

QAdd(a, b) == Q(a[1] * b[2] + b[1] * a[2], a[2] * b[2])

QSub(a, b) == Q(a[1] * b[2] - b[1] * a[2], a[2] * b[2])

QMul(a, b) == Q(a[1] * b[1], a[2] * b[2])

QDiv(a, b) == Q(a[1] * b[2], a[2] * b[1])

QAbs(a) == <<Abs(a[1]), a[2]>>

QLt(a, b) == a[1] * b[2] < b[1] * a[2]

QLe(a, b) == a[1] * b[2] <= b[1] * a[2]

QIsZero(a) == a[1] = 0

\* int(x): Python's float -> int conversion truncates toward zero
IntTrunc(a) == IF a[1] >= 0 THEN a[1] \div a[2] ELSE -((-a[1]) \div a[2])

\* x - floor(x), in [0, 1)
QFrac(a) == Q(a[1] % a[2], a[2])

(* --------------------------- module constants -------------------------- *)

SAMPLE_RATE == 48000

MAX_AMP == 32767

BASE_FREQ == 432

MINOR_RATIOS == <<QInt(1), Q(6, 5), Q(3, 2), QInt(2), Q(12, 5), QInt(3)>>

\* The sample rate the model runs the generators and the driver at: the code
\* reads the module global SAMPLE_RATE (48000), at which one buffer holds
\* 192000..528000 samples.  Every length of the code is linear in the rate,
\* so the model runs the same code at ModelRate samples per second; the
\* lengths at the program's own rate are computed by NumSamples(d, SAMPLE_RATE).
ModelRate == 7

(* ------------------------------ numpy ---------------------------------- *)

Ok(v) == [exc |-> "none", val |-> v]

Raise(e, v) == [exc |-> e, val |-> v]

\* faulty variant: the endpoint is never included
LinspaceOpen(start, stop, num, endpoint) ==
    [i \in 1..num |-> QAdd(start, QMul(Q(i - 1, num), QSub(stop, start)))]

\* np.linspace(start, stop, num, endpoint) for num >= 0
Linspace(start, stop, num, endpoint) ==
    LET div == IF endpoint THEN num - 1 ELSE num
    IN  [i \in 1..num |->
            IF div = 0 THEN start
            ELSE QAdd(start, QMul(Q(i - 1, div), QSub(stop, start)))]

\* a Python slice bound i of an array of length n: negative counts from the end
NormIdx(i, n) == IF i < 0 THEN Max(n + i, 0) ELSE Min(i, n)

\* whether an operand of length m broadcasts into a target of length l
\* (in-place operator or slice assignment: the target's shape is fixed)
Broadcasts(m, l) == m = l \/ m = 1

\* faulty variant: the product is stored in a fresh zero array, not in place
ImulSliceFresh(w, lo, hi, ramp) ==
    LET l == Max(hi - lo, 0)
    IN  IF ~(Len(ramp) = l \/ Len(ramp) = 1) THEN [exc |-> "ValueError", val |-> w]
        ELSE [exc |-> "none",
              val |-> [i \in 1..Len(w) |->
                         IF i > lo /\ i <= hi
                         THEN QMul(w[i], IF Len(ramp) = l THEN ramp[i - lo] ELSE ramp[1])
                         ELSE QInt(0)]]

\* w[lo:hi] *= ramp
ImulSlice(w, lo, hi, ramp) ==
    LET l == Max(hi - lo, 0)
    IN  IF ~Broadcasts(Len(ramp), l) THEN Raise("ValueError", w)
        ELSE Ok([i \in 1..Len(w) |->
                    IF i > lo /\ i <= hi
                    THEN QMul(w[i], IF Len(ramp) = l THEN ramp[i - lo] ELSE ramp[1])
                    ELSE w[i]])

\* w[lo:hi] = ramp
AssignSlice(w, lo, hi, ramp) ==
    LET l == Max(hi - lo, 0)
    IN  IF ~Broadcasts(Len(ramp), l) THEN Raise("ValueError", w)
        ELSE Ok([i \in 1..Len(w) |->
                    IF i > lo /\ i <= hi
                    THEN (IF Len(ramp) = l THEN ramp[i - lo] ELSE ramp[1])
                    ELSE w[i]])

\* np.max(np.abs(w)) of a non-empty array
Peak(w) ==
    LET mags == {QAbs(w[i]) : i \in 1..Len(w)}
    IN  CHOOSE p \in mags : \A q \in mags : QLe(q, p)

\* np.sin(2 * pi * x), x in turns, read from a 12-point table (30 degree
\* steps, sqrt(3)/2 taken as 7/8): |sin| <= 1 and sin(0) = 0
SinTable == <<QInt(0), Q(1, 2), Q(7, 8), QInt(1), Q(7, 8), Q(1, 2),
              QInt(0), Q(-1, 2), Q(-7, 8), QInt(-1), Q(-7, 8), Q(-1, 2)>>

Sin2Pi(x) == SinTable[IntTrunc(QMul(QInt(12), QFrac(x))) + 1]

\* 2 * np.arcsin(np.sin(2 * pi * x)) / pi: the triangle wave, same table steps
TriTable == <<QInt(0), Q(1, 3), Q(2, 3), QInt(1), Q(2, 3), Q(1, 3),
              QInt(0), Q(-1, 3), Q(-2, 3), QInt(-1), Q(-2, 3), Q(-1, 3)>>

Tri2Pi(x) == TriTable[IntTrunc(QMul(QInt(12), QFrac(x))) + 1]

\* faulty variant: one sample more, the endpoint t = duration counted
NumSamplesClosed(duration, sample_rate) ==
    IntTrunc(QMul(QInt(sample_rate), duration)) + 1

\* int(sample_rate * duration)
NumSamples(duration, sample_rate) == IntTrunc(QMul(QInt(sample_rate), duration))

(* ------------------------- waveform primitives ------------------------- *)

generate_sine_wave(freq, duration, sample_rate) ==
    LET n == NumSamples(duration, sample_rate)
    IN  IF n < 0 THEN Raise("ValueError", <<>>)
        ELSE LET t == Linspace(QInt(0), duration, n, FALSE)
             IN  Ok([i \in 1..n |-> Sin2Pi(QMul(freq, t[i]))])

generate_triangle_wave(freq, duration, sample_rate) ==
    LET n == NumSamples(duration, sample_rate)
    IN  IF n < 0 THEN Raise("ValueError", <<>>)
        ELSE LET t == Linspace(QInt(0), duration, n, FALSE)
             IN  Ok([i \in 1..n |-> Tri2Pi(QMul(freq, t[i]))])

(* ------------------------------ shaping -------------------------------- *)

FadeSamples(fade_duration, sample_rate) ==
    IntTrunc(QMul(fade_duration, QInt(sample_rate)))

\* faulty variant: the fade-out is taken from the array as it was before the fade-in
apply_fade_separate(waveform, fade_duration, sample_rate) ==
    LET fade_samples == FadeSamples(fade_duration, sample_rate)
        n == Len(waveform)
    IN  IF fade_samples < 0 THEN Raise("ValueError", waveform)
        ELSE LET r1 == ImulSlice(waveform, 0, NormIdx(fade_samples, n),
                                 Linspace(QInt(0), QInt(1), fade_samples, TRUE))
                 r2 == ImulSlice(waveform, NormIdx(-fade_samples, n), n,
                                 Linspace(QInt(1), QInt(0), fade_samples, TRUE))
             IN  IF r1.exc # "none" THEN r1
                 ELSE IF r2.exc # "none" THEN Raise(r2.exc, r1.val)
                 ELSE Ok([i \in 1..n |->
                            IF i > NormIdx(-fade_samples, n) THEN r2.val[i] ELSE r1.val[i]])

apply_fade(waveform, fade_duration, sample_rate) ==
    LET fade_samples == FadeSamples(fade_duration, sample_rate)
        n == Len(waveform)
    IN  IF fade_samples < 0 THEN Raise("ValueError", waveform)
        ELSE LET fade_in == Linspace(QInt(0), QInt(1), fade_samples, TRUE)
                 r1 == ImulSlice(waveform, 0, NormIdx(fade_samples, n), fade_in)
             IN  IF r1.exc # "none" THEN r1
                 ELSE LET fade_out == Linspace(QInt(1), QInt(0), fade_samples, TRUE)
                      IN  ImulSlice(r1.val, NormIdx(-fade_samples, n), n, fade_out)

apply_envelope(waveform, attack, release, sample_rate) ==
    LET attack_samples == IntTrunc(QMul(attack, QInt(sample_rate)))
        release_samples == IntTrunc(QMul(release, QInt(sample_rate)))
        n == Len(waveform)
        ones == [i \in 1..n |-> QInt(1)]
        e1 == IF attack_samples > 0
              THEN AssignSlice(ones, 0, NormIdx(attack_samples, n),
                               Linspace(QInt(0), QInt(1), attack_samples, TRUE))
              ELSE Ok(ones)
    IN  IF e1.exc # "none" THEN Raise(e1.exc, waveform)
        ELSE LET e2 == IF release_samples > 0
                       THEN AssignSlice(e1.val, NormIdx(-release_samples, n), n,
                                        Linspace(QInt(1), QInt(0), release_samples, TRUE))
                       ELSE e1
             IN  IF e2.exc # "none" THEN Raise(e2.exc, waveform)
                 ELSE Ok([i \in 1..n |-> QMul(waveform[i], e2.val[i])])

(* ------------------------ mixing, normalization ------------------------ *)

\* mixed += wave * gain over zip(waveforms, gains), from np.zeros_like(waveforms[0])
RECURSIVE MixFrom(_, _, _, _)
MixFrom(waveforms, gains, k, mixed) ==
    IF k > Min(Len(waveforms), Len(gains)) THEN Ok(mixed)
    ELSE IF ~Broadcasts(Len(waveforms[k]), Len(mixed)) THEN Raise("ValueError", mixed)
    ELSE MixFrom(waveforms, gains, k + 1,
                 [i \in 1..Len(mixed) |->
                     QAdd(mixed[i],
                          QMul(IF Len(waveforms[k]) = Len(mixed)
                               THEN waveforms[k][i] ELSE waveforms[k][1],
                               gains[k]))])

EqualGains(waveforms) == [k \in 1..Len(waveforms) |-> Q(1, Len(waveforms))]

\* gains = <<>> stands for gains=None (the code never passes an empty list)
mix_waveforms(waveforms, gains) ==
    MixFrom(waveforms, IF gains = <<>> THEN EqualGains(waveforms) ELSE gains, 1,
            [i \in 1..Len(waveforms[1]) |-> QInt(0)])

\* faulty variant: scaled to a peak of 1, the headroom forgotten
normalize_audio_full_scale(waveform, headroom) ==
    IF Len(waveform) = 0 THEN Raise("ValueError", waveform)
    ELSE LET peak == Peak(waveform)
         IN  IF QLt(QInt(0), peak)
             THEN Ok([i \in 1..Len(waveform) |-> QDiv(waveform[i], peak)])
             ELSE Ok(waveform)

normalize_audio(waveform, headroom) ==
    IF Len(waveform) = 0 THEN Raise("ValueError", waveform)
    ELSE LET peak == Peak(waveform)
         IN  IF QLt(QInt(0), peak)
             THEN Ok([i \in 1..Len(waveform) |->
                         QMul(QDiv(waveform[i], peak), headroom)])
             ELSE Ok(waveform)

(* --------------------------- serialization ----------------------------- *)

\* <<q, r>> with x * m = q * b + r and 0 <= r < b, for 0 <= x < b and m >= 0,
\* by halving m: no intermediate exceeds 3 * b
RECURSIVE MulDivMod(_, _, _)
MulDivMod(x, m, b) ==
    IF m = 0 THEN <<0, 0>>
    ELSE LET h == MulDivMod(x, m \div 2, b)
             r2 == 2 * h[2] + (m % 2) * x
         IN  <<2 * h[1] + r2 \div b, r2 % b>>

\* <<q, r>> with |s| * m = q + r / s[2]: the integer and fractional part of
\* the float product s * m, taken on its magnitude
ScaleParts(s, m) ==
    LET a == Abs(s[1])
        p == MulDivMod(a % s[2], m, s[2])
    IN  <<(a \div s[2]) * m + p[1], p[2]>>

\* faulty variant: rounded to the nearest integer (half away from zero)
ScaleRound(s, m) ==
    LET p == ScaleParts(s, m)
        mag == IF 2 * p[2] >= s[2] THEN p[1] + 1 ELSE p[1]
    IN  IF s[1] < 0 THEN -mag ELSE mag

\* the C conversion of the float s * m to an integer: toward zero
ScaleTrunc(s, m) ==
    IF s[1] < 0 THEN -ScaleParts(s, m)[1] ELSE ScaleParts(s, m)[1]

InInt16(v) == v >= -32768 /\ v <= 32767

\* What a build may store for a float outside the int16 range (the C cast is
\* undefined there): the low 16 bits, the nearest extreme, or the "integer
\* indefinite" pattern.
CastPolicies == {"wrap", "saturate", "indefinite"}

CastInt16(v, ub) ==
    IF InInt16(v) THEN v
    ELSE IF ub = "wrap" THEN ((v + 32768) % 65536) - 32768
    ELSE IF ub = "saturate" THEN (IF v < 0 THEN -32768 ELSE 32767)
    ELSE -32768

\* (waveform * MAX_AMP).astype(np.int16)
AstypeInt16(waveform, ub) ==
    [i \in 1..Len(waveform) |-> CastInt16(ScaleTrunc(waveform[i], MAX_AMP), ub)]

NoFile == [exists |-> FALSE]

\* How the file system answers one save_wav: every call succeeds, or
\* os.makedirs, wave.open or writeframes raises OSError.
IoOutcomes == {"ok", "makedirs", "open", "writeframes"}

\* save_wav(waveform, filename, sample_rate): the exception and the file left
\* at filename (old: the file that was there).  wave.open creates the file;
\* a failing writeframes leaves it without its frames.
save_wav(waveform, old, sample_rate, io, ub) ==
    LET waveform_int == AstypeInt16(waveform, ub)
        header == [exists |-> TRUE, nchannels |-> 1, sampwidth |-> 2,
                   framerate |-> sample_rate]
    IN  IF io \in {"makedirs", "open"} THEN Raise("OSError", old)
        ELSE IF io = "writeframes"
        THEN Raise("OSError", header @@ [frames |-> <<>>, complete |-> FALSE])
        ELSE Ok(header @@ [frames |-> waveform_int, complete |-> TRUE])

(* ------------------------------ randomness ----------------------------- *)

\* numpy's global generator, never seeded by the program: a full-period
\* congruential generator over eighths.  A draw advances the state and
\* returns state / 8, a value in [0, 1).
RngNext(x) == (5 * x + 3) % 8

RngValue(x) == Q(x, 8)

\* np.random.uniform(low, high) from the state after the draw
Uniform(low, high, x) == QAdd(low, QMul(QSub(high, low), RngValue(x)))

(* --------------------------- loop generators --------------------------- *)

Generators == <<"drone", "texture", "breath", "pad">>

\* per generator: the apply_fade duration, the normalize_audio headroom
FadeDuration(gen) ==
    CASE gen = "drone" -> Q(1, 2)
      [] gen = "texture" -> Q(3, 10)
      [] gen = "breath" -> QInt(1)
      [] gen = "pad" -> Q(3, 2)

\* faulty variant: normalize_audio called with its default headroom
HeadroomDefault(gen) == Q(9, 10)

Headroom(gen) ==
    CASE gen = "drone" -> Q(7, 10)
      [] gen = "texture" -> Q(1, 2)
      [] gen = "breath" -> Q(2, 5)
      [] gen = "pad" -> Q(3, 5)

\* What the first part of a generator leaves: the exception, the voices to
\* mix, their gains, the random state, and the length of every array a call
\* returned on the way.
Built(exc, waves, gains, x, lens) ==
    [exc |-> exc, waves |-> waves, gains |-> gains, rng |-> x, lens |-> lens]

\* generate_drone_loop, the harmonics loop
RECURSIVE DroneHarmonics(_, _, _, _)
DroneHarmonics(duration, i, x, acc) ==
    IF i > 3 THEN acc
    ELSE LET base == Q(BASE_FREQ, 2)
             freq == QMul(base, MINOR_RATIOS[i + 1])
             x1 == RngNext(x)
             detune == QMul(QSub(RngValue(x1), Q(1, 2)), QInt(2))
             wave == generate_sine_wave(QAdd(freq, detune), duration, ModelRate)
             gain == Q(1, i + 1)
         IN  IF wave.exc # "none"
             THEN Built(wave.exc, acc.waves, acc.gains, x1, acc.lens)
             ELSE DroneHarmonics(duration, i + 1, x1,
                     Built("none", Append(acc.waves, wave.val),
                           Append(acc.gains, gain), x1,
                           Append(acc.lens, <<"generate_sine_wave", Len(wave.val)>>)))

\* generate_texture_loop, the tones loop
RECURSIVE TextureTones(_, _, _, _)
TextureTones(duration, k, x, acc) ==
    IF k > 5 THEN acc
    ELSE LET x1 == RngNext(x)
             freq == Uniform(QInt(200), QInt(800), x1)
             x2 == RngNext(x1)
             tone_duration == Uniform(QInt(1), QInt(3), x2)
             x3 == RngNext(x2)
             tone_start == Uniform(QInt(0), QSub(duration, tone_duration), x3)
             tone == generate_sine_wave(freq, duration, ModelRate)
         IN  IF tone.exc # "none"
             THEN Built(tone.exc, acc.waves, acc.gains, x3, acc.lens)
             ELSE LET env == apply_envelope(tone.val, Q(3, 10), Q(3, 10), ModelRate)
                      lens1 == Append(acc.lens, <<"generate_sine_wave", Len(tone.val)>>)
                  IN  IF env.exc # "none"
                      THEN Built(env.exc, acc.waves, acc.gains, x3, lens1)
                      ELSE LET x4 == RngNext(x3)
                               pan == Uniform(Q(1, 2), QInt(1), x4)
                               panned == [i \in 1..Len(env.val) |-> QMul(env.val[i], pan)]
                           IN  TextureTones(duration, k + 1, x4,
                                  Built("none", Append(acc.waves, panned), <<>>, x4,
                                        Append(lens1, <<"apply_envelope", Len(panned)>>)))

\* generate_breath_loop: the time axis and the three phases
BreathTime(duration) ==
    Linspace(QInt(0), duration, NumSamples(duration, ModelRate), FALSE)

InhaleMask(t) == {i \in 1..Len(t) : QLt(t[i], QInt(4))}

\* faulty variant: the exhale starts after t = 4
ExhaleMaskStrict(t) == {i \in 1..Len(t) : QLt(QInt(4), t[i]) /\ QLt(t[i], QInt(10))}

ExhaleMask(t) == {i \in 1..Len(t) : QLe(QInt(4), t[i]) /\ QLt(t[i], QInt(10))}

\* out[mask] = values: the k-th index of the mask takes the k-th value
MaskAssign(out, mask, values) ==
    [i \in 1..Len(out) |->
        IF i \in mask THEN values[Cardinality({j \in mask : j <= i})] ELSE out[i]]

BreathShape(t) ==
    LET zeros == [i \in 1..Len(t) |-> QInt(0)]
        inhale_mask == InhaleMask(t)
        s1 == MaskAssign(zeros, inhale_mask,
                 Linspace(QInt(0), Q(1, 2), Cardinality(inhale_mask), TRUE))
        exhale_mask == ExhaleMask(t)
    IN  MaskAssign(s1, exhale_mask,
           Linspace(Q(1, 2), QInt(0), Cardinality(exhale_mask), TRUE))

\* the voices of a generator
BuildVoices(gen, duration, x) ==
    CASE gen = "drone" ->
            DroneHarmonics(duration, 0, x, Built("none", <<>>, <<>>, x, <<>>))
      [] gen = "texture" ->
            TextureTones(duration, 1, x, Built("none", <<>>, <<>>, x, <<>>))
      [] gen = "breath" ->
            IF NumSamples(duration, ModelRate) < 0
            THEN Built("ValueError", <<>>, <<>>, x, <<>>)
            ELSE LET t == BreathTime(duration)
                     breath_shape == BreathShape(t)
                     carrier == generate_sine_wave(QInt(216), duration, ModelRate)
                 IN  Built(carrier.exc, <<carrier.val, breath_shape>>, <<>>, x,
                           <<<<"breath_shape", Len(breath_shape)>>,
                             <<"generate_sine_wave", Len(carrier.val)>>>>)
      [] gen = "pad" ->
            LET base == Q(BASE_FREQ, 4)
                w1 == generate_triangle_wave(base, duration, ModelRate)
                w2 == generate_sine_wave(QMul(base, QInt(2)), duration, ModelRate)
                w3 == generate_sine_wave(QMul(base, Q(3, 2)), duration, ModelRate)
            IN  IF w1.exc # "none" THEN Built(w1.exc, <<>>, <<>>, x, <<>>)
                ELSE Built("none", <<w1.val, w2.val, w3.val>>,
                           <<Q(1, 2), Q(3, 10), Q(1, 5)>>, x,
                           <<<<"generate_triangle_wave", Len(w1.val)>>,
                             <<"generate_sine_wave", Len(w2.val)>>,
                             <<"generate_sine_wave", Len(w3.val)>>>>)

\* the mix of a generator's voices (breath: carrier * breath_shape)
MixVoices(gen, waves, gains) ==
    IF gen = "breath"
    THEN Ok([i \in 1..Len(waves[1]) |-> QMul(waves[1][i], waves[2][i])])
    ELSE mix_waveforms(waves, gains)

(* ------------------------------- driver -------------------------------- *)

\* faulty variant: the texture and the breath buffer saved under each other's name
MainCallsSwapped ==
    << [gen |-> "drone", duration |-> QInt(6), file |-> "drone-base.wav"],
       [gen |-> "texture", duration |-> QInt(4), file |-> "breath-cycle.wav"],
       [gen |-> "breath", duration |-> QInt(11), file |-> "texture-grains.wav"],
       [gen |-> "pad", duration |-> QInt(8), file |-> "pad-warm.wav"] >>

\* main(): the four generate-then-save steps
MainCalls ==
    << [gen |-> "drone", duration |-> QInt(6), file |-> "drone-base.wav"],
       [gen |-> "texture", duration |-> QInt(4), file |-> "texture-grains.wav"],
       [gen |-> "breath", duration |-> QInt(11), file |-> "breath-cycle.wav"],
       [gen |-> "pad", duration |-> QInt(8), file |-> "pad-warm.wav"] >>

FileNames == {MainCalls[k].file : k \in 1..4}

(* ------------------------------- bounds -------------------------------- *)

\* seeds of the random generator
NumSeeds == 2

\* durations of a direct generator call: -1/4, 0, 1/4, ..., MaxQuarters/4 seconds
MaxQuarters == 12

Durations == {Q(k, 4) : k \in (-1)..MaxQuarters}

\* direct calls of apply_fade, normalize_audio and save_wav: arrays of at
\* most MaxLen samples, sample rates 1..MaxFnRate
MaxLen == 4

MaxFnRate == 3

SampleVals == {Q(-3, 2), Q(-2, 3), QInt(0), QInt(1)}

Buffers == UNION {[1..n -> SampleVals] : n \in 0..MaxLen}

FadeDurations == {QInt(0), Q(1, 2), QInt(1)}

Headrooms == {Q(9, 10), Q(1, 2)}

(* -------------------------------- state -------------------------------- *)

VARIABLES
    mode,      \* what is run: "main", one "generator", or one library "function"
    pc,        \* "run", "done" (main printed "Loop generation complete!"),
               \* "failed" (an exception propagated: the run is over)
    err,       \* the exception that ended the run, or "none"
    step,      \* main's step 1..4 (the generator of a direct call)
    stage,     \* where the current generator call stands
    duration,  \* the duration argument of the current generator call
    rng,       \* state of numpy's global random generator
    voices,    \* the current generator's voices
    gains,     \* and their gains
    mixed,     \* the array mix_waveforms returned, as it was before apply_fade
    faded,     \* the same array after apply_fade
               \* (a generator's locals are gone once main has saved its result)
    ret,       \* what each generator returned: main's drone, texture, breath, pad
    lens,      \* <<call, length of the array it returned>> within the current generator
    log,       \* generator calls and file creations, in order
    files,     \* the output directory
    call       \* a direct library call: its arguments and what it left

vars == <<mode, pc, err, step, stage, duration, rng, voices, gains, mixed, faded,
          ret, lens, log, files, call>>

Gen == MainCalls[step].gen

NoCall == [fn |-> "none", waveform |-> <<>>, p |-> QInt(0), sample_rate |-> 0,
           exc |-> "none", out |-> <<>>]

InitCommon ==
    /\ pc = "run"
    /\ err = "none"
    /\ stage = "call"
    /\ voices = <<>>
    /\ gains = <<>>
    /\ mixed = <<>>
    /\ faded = <<>>
    /\ ret = [g \in {MainCalls[k].gen : k \in 1..4} |-> <<>>]
    /\ lens = <<>>
    /\ log = <<>>
    /\ files = [f \in FileNames |-> NoFile]

Init ==
    /\ InitCommon
    /\ \/ /\ mode = "main"
          /\ step = 1
          /\ duration = MainCalls[1].duration
          /\ rng \in 0..(NumSeeds - 1)
          /\ call = NoCall
       \/ /\ mode = "generator"
          /\ step \in 1..4
          /\ duration \in Durations
          /\ rng \in 0..(NumSeeds - 1)
          /\ call = NoCall
       \/ /\ mode = "function"
          /\ step = 1
          /\ duration = QInt(0)
          /\ rng = 0
          /\ call \in {[NoCall EXCEPT !.waveform = w] : w \in Buffers}

\* faulty variant: the exception is caught and the run goes on
FailCaught(e) ==
    /\ pc' = "run"
    /\ err' = e

\* an exception propagates out of main() (or out of the call): the run is over
Fail(e) ==
    /\ pc' = "failed"
    /\ err' = e

\* the first part of generate_*_loop(duration): the voices
CallGenerator ==
    /\ pc = "run" /\ mode \in {"main", "generator"} /\ stage = "call"
    /\ LET b == BuildVoices(Gen, duration, rng)
       IN  /\ log' = Append(log, <<"generate", Gen>>)
           /\ rng' = b.rng
           /\ lens' = b.lens
           /\ voices' = b.waves
           /\ gains' = b.gains
           /\ IF b.exc # "none"
              THEN Fail(b.exc) /\ UNCHANGED stage
              ELSE stage' = "voices" /\ UNCHANGED <<pc, err>>
    /\ UNCHANGED <<mode, step, duration, mixed, faded, ret, files, call>>

\* mixed = mix_waveforms(...) (breath: modulated = carrier * breath_shape)
Mix ==
    /\ pc = "run" /\ stage = "voices"
    /\ LET r == MixVoices(Gen, voices, gains)
       IN  IF r.exc # "none"
           THEN Fail(r.exc) /\ UNCHANGED <<stage, mixed, lens>>
           ELSE /\ stage' = "mixed"
                /\ mixed' = r.val
                /\ lens' = Append(lens, <<"mix_waveforms", Len(r.val)>>)
                /\ UNCHANGED <<pc, err>>
    /\ UNCHANGED <<mode, step, duration, rng, voices, gains, faded, ret, log, files, call>>

\* mixed = apply_fade(mixed, fade_duration=...)
Fade ==
    /\ pc = "run" /\ stage = "mixed"
    /\ LET r == apply_fade(mixed, FadeDuration(Gen), ModelRate)
       IN  IF r.exc # "none"
           THEN Fail(r.exc) /\ UNCHANGED <<stage, faded, lens>>
           ELSE /\ stage' = "faded"
                /\ faded' = r.val
                /\ lens' = Append(lens, <<"apply_fade", Len(r.val)>>)
                /\ UNCHANGED <<pc, err>>
    /\ UNCHANGED <<mode, step, duration, rng, voices, gains, mixed, ret, log, files, call>>

\* mixed = normalize_audio(mixed, headroom=...); return mixed
Normalize ==
    /\ pc = "run" /\ stage = "faded"
    /\ LET r == normalize_audio(faded, Headroom(Gen))
       IN  IF r.exc # "none"
           THEN Fail(r.exc) /\ UNCHANGED <<stage, ret, lens>>
           ELSE /\ stage' = "returned"
                /\ ret' = [ret EXCEPT ![Gen] = r.val]
                /\ lens' = Append(lens, <<"normalize_audio", Len(r.val)>>)
                /\ UNCHANGED <<pc, err>>
    /\ UNCHANGED <<mode, step, duration, rng, voices, gains, mixed, faded, log, files, call>>

\* main: save_wav(<the generator's result>, os.path.join(output_dir, <file>)),
\* then on to the next step
SaveWav ==
    /\ pc = "run" /\ mode = "main" /\ stage = "returned"
    /\ \E io \in IoOutcomes, ub \in CastPolicies :
          LET f == MainCalls[step].file
              r == save_wav(ret[Gen], files[f], SAMPLE_RATE, io, ub)
          IN  /\ files' = [files EXCEPT ![f] = r.val]
              /\ log' = IF io \in {"ok", "writeframes"}
                        THEN Append(log, <<"write", f>>) ELSE log
              /\ IF r.exc # "none"
                 THEN /\ Fail(r.exc)
                      /\ UNCHANGED <<step, stage, duration, voices, gains, mixed,
                                     faded, lens>>
                 ELSE /\ UNCHANGED <<pc, err>>
                      /\ voices' = <<>> /\ gains' = <<>> /\ mixed' = <<>>
                      /\ faded' = <<>> /\ lens' = <<>>
                      /\ IF step < 4
                         THEN /\ step' = step + 1
                              /\ stage' = "call"
                              /\ duration' = MainCalls[step + 1].duration
                         ELSE stage' = "saved" /\ UNCHANGED <<step, duration>>
    /\ UNCHANGED <<mode, rng, ret, call>>

\* main's last lines: print("Loop generation complete!")
Complete ==
    /\ pc = "run" /\ mode = "main" /\ stage = "saved"
    /\ pc' = "done"
    /\ UNCHANGED <<mode, err, step, stage, duration, rng, voices, gains, mixed,
                   faded, ret, lens, log, files, call>>

\* an allocation of the call in progress fails: MemoryError propagates
OutOfMemory ==
    /\ pc = "run" /\ mode \in {"main", "generator"}
    /\ stage \in {"call", "voices", "mixed", "faded"} \/ (mode = "main" /\ stage = "returned")
    /\ Fail("MemoryError")
    /\ log' = IF stage = "call" THEN Append(log, <<"generate", Gen>>) ELSE log
    /\ UNCHANGED <<mode, step, stage, duration, rng, voices, gains, mixed,
                   faded, ret, lens, files, call>>

\* direct calls of the library functions
Returned(fn, p, sample_rate, r) ==
    /\ call' = [call EXCEPT !.fn = fn, !.p = p, !.sample_rate = sample_rate,
                            !.exc = r.exc, !.out = r.val]
    /\ stage' = "returned"

CallNormalize ==
    /\ mode = "function" /\ stage = "call"
    /\ \E h \in Headrooms :
          Returned("normalize_audio", h, 0, normalize_audio(call.waveform, h))
    /\ UNCHANGED <<mode, pc, err, step, duration, rng, voices, gains, mixed, faded,
                   ret, lens, log, files>>

CallFade ==
    /\ mode = "function" /\ stage = "call"
    /\ \E fd \in FadeDurations, sr \in 1..MaxFnRate :
          Returned("apply_fade", fd, sr, apply_fade(call.waveform, fd, sr))
    /\ UNCHANGED <<mode, pc, err, step, duration, rng, voices, gains, mixed, faded,
                   ret, lens, log, files>>

CallSaveWav ==
    /\ mode = "function" /\ stage = "call"
    /\ \E io \in IoOutcomes, ub \in CastPolicies :
          LET f == MainCalls[1].file
              r == save_wav(call.waveform, files[f], SAMPLE_RATE, io, ub)
          IN  /\ Returned("save_wav", QInt(0), SAMPLE_RATE, [exc |-> r.exc, val |-> <<>>])
              /\ files' = [files EXCEPT ![f] = r.val]
    /\ UNCHANGED <<mode, pc, err, step, duration, rng, voices, gains, mixed, faded,
                   ret, lens, log>>

Next ==
    \/ CallGenerator
    \/ Mix
    \/ Fade
    \/ Normalize
    \/ SaveWav
    \/ Complete
    \/ OutOfMemory
    \/ CallNormalize
    \/ CallFade
    \/ CallSaveWav

Spec == Init /\ [][Next]_vars

(* ------------------------------- claims -------------------------------- *)

\* file f is complete and holds the buffer generator gen returned for secs seconds
C1_FileOf(f, gen, secs) ==
    /\ files[f].exists /\ files[f].complete
    /\ files[f].nchannels = 1 /\ files[f].sampwidth = 2 /\ files[f].framerate = 48000
    /\ \E ub \in CastPolicies : files[f].frames = AstypeInt16(ret[gen], ub)
    /\ Len(files[f].frames) = secs * ModelRate

C2_LaterStepsUntouched ==
    \A j \in 1..4 :
        j > step =>
            /\ files[MainCalls[j].file] = NoFile
            /\ \A i \in 1..Len(log) : log[i][2] \notin {MainCalls[j].gen, MainCalls[j].file}

\* C2: when a generator call or a file write of main() fails at step k, the
\* run is over: the exception is not caught and nothing is retried (no action
\* is enabled any more, so "Loop generation complete!" is never reached), no
\* generator after step k has been called and no file of a later step exists.
C2_FailureHaltsRun ==
    (mode = "main" /\ err # "none") =>
        /\ pc = "failed"
        /\ ~ENABLED Next
        /\ C2_LaterStepsUntouched
        /\ \A i, j \in 1..Len(log) : i # j => log[i] # log[j]

C2_Witness ==
    /\ mode = "main" /\ pc = "failed" /\ err = "OSError" /\ step = 2
    /\ files["drone-base.wav"].exists /\ files["drone-base.wav"].complete
    /\ ~files["texture-grains.wav"].exists

\* the samples of an array all zero
AllZero(w) == \A i \in 1..Len(w) : QIsZero(w[i])

\* p is the largest magnitude of the array w
IsPeakOf(p, w) ==
    /\ \E i \in 1..Len(w) : QAbs(w[i]) = p
    /\ \A i \in 1..Len(w) : QLe(QAbs(w[i]), p)

\* what C3 says of one call normalize_audio(waveform, headroom) -> out
C3_Normalized(waveform, headroom, out) ==
    /\ Len(out) = Len(waveform)
    /\ ~AllZero(waveform) => IsPeakOf(headroom, out)
    /\ AllZero(waveform) => out = waveform

\* C3 as stated: for every buffer and every headroom normalize_audio returns
\* a buffer of the input's length whose largest magnitude is headroom when the
\* input has a nonzero peak, and the input itself when every sample is zero.
C3_Original ==
    call.fn = "normalize_audio" =>
        /\ call.exc = "none"
        /\ C3_Normalized(call.waveform, call.p, call.out)

\* C3 amended: the same for every non-empty buffer; on an empty buffer
\* normalize_audio raises ValueError (np.max of a zero-size array) and
\* returns nothing.
C3_NormalizeNonEmpty ==
    call.fn = "normalize_audio" =>
        IF Len(call.waveform) = 0
        THEN call.exc = "ValueError"
        ELSE /\ call.exc = "none"
             /\ C3_Normalized(call.waveform, call.p, call.out)

C3_Witness ==
    /\ call.fn = "normalize_audio" /\ call.exc = "none"
    /\ Len(call.waveform) = 3
    /\ IsPeakOf(Q(3, 2), call.waveform)
    /\ call.p = Q(1, 2)
    /\ call.out # call.waveform

\* C4: apply_fade leaves every sample at an index i with
\* fade_samples <= i < N - fade_samples as it was, and the length N as it was,
\* for every buffer and every fade_samples >= 0 (fade_samples = 0 and
\* fade_samples >= N included, where the call raises and changes nothing).
C4_FadeFrame ==
    call.fn = "apply_fade" =>
        LET n == Len(call.waveform)
            fade_samples == (call.p[1] * call.sample_rate) \div call.p[2]
        IN  /\ Len(call.out) = n
            /\ \A i \in 0..(n - 1) :
                  (fade_samples <= i /\ i < n - fade_samples) =>
                      call.out[i + 1] = call.waveform[i + 1]

C4_Witness ==
    /\ call.fn = "apply_fade" /\ call.exc = "none"
    /\ Len(call.waveform) = 4
    /\ FadeSamples(call.p, call.sample_rate) = 1
    /\ ~QIsZero(call.waveform[1]) /\ QIsZero(call.out[1])
    /\ ~QIsZero(call.waveform[2]) /\ ~QIsZero(call.waveform[3])

\* the integer nearest to s * 32767 (v is within 1/2 of it), clipped to int16
C5_RoundedClipped(s, v) ==
    LET lo == 2 * s[1] * 32767 - s[2]
        hi == 2 * s[1] * 32767 + s[2]
    IN  \/ InInt16(v) /\ lo <= 2 * v * s[2] /\ 2 * v * s[2] <= hi
        \/ v = 32767 /\ 2 * v * s[2] < lo
        \/ v = -32768 /\ 2 * v * s[2] > hi

\* s * 32767 cut toward zero is v
C5_Truncated(s, v) ==
    IF s[1] >= 0
    THEN v * s[2] <= s[1] * 32767 /\ s[1] * 32767 < (v + 1) * s[2]
    ELSE (v - 1) * s[2] < s[1] * 32767 /\ s[1] * 32767 <= v * s[2]

C5_Saved == call.fn = "save_wav" /\ call.exc = "none"

C5_File == files[MainCalls[1].file]

\* C5 as stated: every sample s that save_wav stores is round(s * 32767)
\* clipped to [-32768, 32767]: rounded to nearest, never truncated, and clipped,
\* never wrapped.
C5_Original ==
    C5_Saved =>
        \A i \in 1..Len(call.waveform) :
            C5_RoundedClipped(call.waveform[i], C5_File.frames[i])

\* C5 amended: every sample s that save_wav stores is s * 32767 truncated
\* toward zero whenever that integer lies in [-32768, 32767] (no rounding);
\* nothing clips a product outside that range, and what is stored for it is
\* left to the platform's float-to-int16 cast.
C5_SavedTruncated ==
    C5_Saved =>
        /\ Len(C5_File.frames) = Len(call.waveform)
        /\ \A i \in 1..Len(call.waveform) :
              LET s == call.waveform[i]
              IN  (-32769 * s[2] < s[1] * 32767 /\ s[1] * 32767 < 32768 * s[2])
                      => C5_Truncated(s, C5_File.frames[i])

C5_Witness ==
    /\ C5_Saved /\ C5_File.complete
    /\ \E i \in 1..Len(call.waveform) :
          call.waveform[i] = Q(-2, 3) /\ C5_File.frames[i] = -21844
    /\ \E i \in 1..Len(call.waveform) :
          call.waveform[i] = Q(-3, 2) /\ C5_File.frames[i] = 16386

\* the current call is a generator call that has built its voices
InGenerator ==
    /\ mode \in {"main", "generator"}
    /\ stage \in {"voices", "mixed", "faded", "returned"}

\* floor(duration x rate) of the current generator call, for duration >= 0
FloorSamples == (duration[1] * ModelRate) \div duration[2]

C7_Headroom(gen) ==
    CASE gen = "drone" -> Q(7, 10)
      [] gen = "texture" -> Q(5, 10)
      [] gen = "breath" -> Q(4, 10)
      [] gen = "pad" -> Q(6, 10)

\* C7: every sample of every buffer a generator returns is at most the
\* generator's headroom in magnitude (0.7, 0.5, 0.4, 0.6), so its product with
\* 32767 lies inside the int16 range and the conversion of save_wav stores the
\* same value whatever the platform does out of range.
C7_FullScaleSafe ==
    mode \in {"main", "generator"} =>
        \A g \in DOMAIN ret : \A i \in 1..Len(ret[g]) :
            /\ QLe(QAbs(ret[g][i]), C7_Headroom(g))
            /\ Abs(ret[g][i][1]) < ret[g][i][2]
            /\ \A ub \in CastPolicies :
                  /\ AstypeInt16(ret[g], ub)[i] = AstypeInt16(ret[g], "wrap")[i]
                  /\ Abs(AstypeInt16(ret[g], ub)[i]) <= 32767

C7_Witness ==
    /\ mode = "main" /\ pc = "done"
    /\ \A g \in DOMAIN ret : \E i \in 1..Len(ret[g]) : QAbs(ret[g][i]) = C7_Headroom(g)

\* the fade length of the current generator
C8_FadeSamples == FadeSamples(FadeDuration(Gen), ModelRate)

\* the linear ramps of apply_fade at index i of an array of n samples
C8_FadeIn(i, fs) == IF i < fs THEN Q(i, fs - 1) ELSE QInt(1)

C8_FadeOut(i, n, fs) == IF i >= n - fs THEN Q(fs - 1 - (i - (n - fs)), fs - 1) ELSE QInt(1)

C8_TooShort ==
    /\ mode = "generator" /\ duration[1] >= 0
    /\ FloorSamples < 2 * C8_FadeSamples

\* C8 as stated: a generator called with a duration too short for its fade
\* (N < 2 x fade_samples, N < fade_samples and N = 0 included) does not raise.
C8_Original == C8_TooShort => err # "ValueError"

\* C8 amended: for fade_samples <= N < 2 x fade_samples the generator does
\* not raise: the two fade regions overlap, each sample is multiplied by its
\* fade-in and by its fade-out factor, and a buffer of length N is returned;
\* for N < fade_samples (N = 0 included) the generator raises ValueError
\* before apply_fade has changed anything, and returns no buffer.
C8_ShortDuration ==
    C8_TooShort =>
        IF FloorSamples < C8_FadeSamples
        THEN /\ stage \notin {"faded", "returned"}
             /\ err = "ValueError" =>
                   /\ pc = "failed"
                   /\ stage = "mixed" \/ (Gen = "texture" /\ stage = "call")
             /\ (pc = "run" /\ stage = "mixed") =>
                   apply_fade(mixed, FadeDuration(Gen), ModelRate)
                      = [exc |-> "ValueError", val |-> mixed]
        ELSE /\ err # "ValueError"
             /\ stage \in {"faded", "returned"} =>
                   /\ Len(faded) = FloorSamples
                   /\ \A i \in 0..(FloorSamples - 1) :
                         faded[i + 1] =
                            QMul(QMul(mixed[i + 1], C8_FadeIn(i, C8_FadeSamples)),
                                 C8_FadeOut(i, FloorSamples, C8_FadeSamples))
             /\ stage = "returned" => Len(ret[Gen]) = FloorSamples

C8_Witness ==
    /\ C8_TooShort /\ FloorSamples >= C8_FadeSamples /\ stage = "returned"
    /\ \E i \in 0..(FloorSamples - 1) :
          /\ FloorSamples - C8_FadeSamples <= i /\ i < C8_FadeSamples
          /\ ~QIsZero(faded[i + 1])
          /\ QLt(QAbs(faded[i + 1]),
                 QAbs(QMul(mixed[i + 1], C8_FadeIn(i, C8_FadeSamples))))
          /\ QLt(QAbs(faded[i + 1]),
                 QAbs(QMul(mixed[i + 1], C8_FadeOut(i, FloorSamples, C8_FadeSamples))))

\* the indices of the three phases of an 11 second breath
C9_Inhale == 0..(4 * ModelRate - 1)

C9_Exhale == (4 * ModelRate)..(10 * ModelRate - 1)

C9_Pause == (10 * ModelRate)..(11 * ModelRate - 1)

\* C9: generate_breath_loop(11.0): breath_shape rises linearly from 0 to 0.5
\* over the samples with t < 4, falls linearly from 0.5 to 0 over those with
\* 4 <= t < 10 and is 0 in the pause 10 <= t < 11; the three phases partition
\* the indices; the returned buffer is 0 at index 0 and at every index of the
\* pause (t = 10.5 included).
C9_BreathPhases ==
    (mode = "main" /\ Gen = "breath" /\ InGenerator) =>
        LET breath_shape == voices[2]
            t == BreathTime(duration)
        IN  /\ Len(breath_shape) = 11 * ModelRate
            /\ {i - 1 : i \in InhaleMask(t)} = C9_Inhale
            /\ {i - 1 : i \in ExhaleMask(t)} = C9_Exhale
            /\ {i - 1 : i \in {j \in 1..Len(t) : QLe(QInt(10), t[j]) /\ QLt(t[j], QInt(11))}}
                  = C9_Pause
            /\ C9_Inhale \cup C9_Exhale \cup C9_Pause = 0..(Len(breath_shape) - 1)
            /\ \A i \in C9_Inhale :
                  breath_shape[i + 1] = Q(i, 2 * (4 * ModelRate - 1))
            /\ \A i \in C9_Exhale :
                  breath_shape[i + 1] =
                     QSub(Q(1, 2), Q(i - 4 * ModelRate, 2 * (6 * ModelRate - 1)))
            /\ \A i \in C9_Pause : QIsZero(breath_shape[i + 1])
            /\ stage = "returned" =>
                  /\ QIsZero(ret["breath"][1])
                  /\ \A i \in C9_Pause : QIsZero(ret["breath"][i + 1])
                  /\ QIsZero(ret["breath"][(21 * ModelRate) \div 2 + 1])

C9_Witness ==
    /\ mode = "main" /\ Gen = "breath" /\ stage = "returned"
    /\ voices[2][4 * ModelRate + 1] = Q(1, 2)
    /\ \E i \in C9_Inhale : ~QIsZero(ret["breath"][i + 1])
    /\ \E i \in C9_Exhale : ~QIsZero(ret["breath"][i + 1])

\* C10: the first and the last sample stored in each file the driver writes
\* are 0: apply_fade with fade_samples >= 2 multiplies index 0 and index N-1
\* by 0, and normalize_audio and the int16 conversion keep 0; with
\* fade_samples = 1 the fade-out ramp is the single value 1 and the last sample
\* (of an array of at least two) stays as it was.
C10_LoopBoundary ==
    /\ mode = "main" =>
          \A f \in FileNames :
              (files[f].exists /\ files[f].complete) =>
                  /\ Len(files[f].frames) >= 2
                  /\ files[f].frames[1] = 0
                  /\ files[f].frames[Len(files[f].frames)] = 0
    /\ (call.fn = "apply_fade" /\ call.exc = "none") =>
          LET n == Len(call.waveform)
              fade_samples == (call.p[1] * call.sample_rate) \div call.p[2]
          IN  /\ (fade_samples >= 2 /\ n >= 1) =>
                    QIsZero(call.out[1]) /\ QIsZero(call.out[n])
              /\ (fade_samples = 1 /\ n >= 2) =>
                    QIsZero(call.out[1]) /\ call.out[n] = call.waveform[n]

C10_Witness ==
    /\ mode = "main" /\ pc = "done"
    /\ \A f \in FileNames : files[f].complete /\ files[f].frames[Len(files[f].frames)] = 0
    /\ \A f \in FileNames : \E i \in 1..Len(files[f].frames) : files[f].frames[i] # 0

====
